---------------------------- MODULE Spec2Model ----------------------------
(***************************************************************************)
(* Model of the kart-irl ESP32 firmware ("esp32/kart-irl board").          *)
(*                                                                         *)
(* Two specifications share the module:                                    *)
(*   Spec        the control firmware: setup() of main.cpp (LED, serial,   *)
(*               Wi-Fi bootstrap, Telnet, servo, motor, web server) and    *)
(*               the WebSocket command dispatcher of web_server.cpp;       *)
(*   SpecStream  the MJPEG stream handler of camera.cpp, one handler per   *)
(*               connected client, against the camera's frame buffers.     *)
(*                                                                         *)
(* A pin is modelled by the level it drives; after reset no output is      *)
(* driven high, so every pin starts LOW.                                   *)
(***************************************************************************)
EXTENDS Integers, Sequences, FiniteSets

VARIABLES
  bootPc,        \* position in setup() / wifiSetup() / flash()
  flashI,        \* flash(): loop counter i
  flashN,        \* flash(): argument number
  flashRet,      \* flash(): where the caller continues
  ledPinMode,    \* led.cpp: pinMode of ledPin ("INPUT" until ledSetup)
  ledLevel,      \* led.cpp: level written to ledPin
  serialStarted, \* log.cpp: Serial.begin done
  wifiStatus,    \* Wi-Fi bootstrap: "idle", "connecting", "connected", "failed"
  otaStarted,    \* ArduinoOTA.begin done
  telnetStarted, \* log.cpp: telnetServer.begin done
  servoAttached, \* servo_controller.cpp: monServo.attach done
  servoPos,      \* last angle written to monServo
  motorSetup,    \* engine.cpp: Motor::setup done
  in1, in2,      \* engine.cpp: levels of the direction pins
  duty,          \* engine.cpp: PWM duty written by ledcWrite
  webStarted,    \* web_server.cpp: server.begin done
  wsLog,         \* log lines emitted by the latest WS data event
  wsSent,        \* frames sent back to the WS client
  wsParsed,      \* whether the latest WS data event called deserializeJson
  lastMsg,       \* the latest WS data event (its frame info and payload)
  ledHist,       \* most recent valid led command ("none", "on", "off")
  ledPrev,       \* the valid led command before ledHist
  spc,           \* camera.cpp: per client, position in streamHandler
  fbHeld,        \* per client, frame buffers acquired and not yet returned
  res,           \* per client, streamHandler's local res
  failedAt,      \* per client, the first call that failed ("none" if none)
  afterFail      \* per client, acquisitions and chunk writes made after it

ctlVars == <<bootPc, flashI, flashN, flashRet, ledPinMode, ledLevel,
             serialStarted, wifiStatus, otaStarted, telnetStarted,
             servoAttached, servoPos, motorSetup, in1, in2, duty, webStarted>>
wsVars == <<wsLog, wsSent, wsParsed, lastMsg, ledHist, ledPrev>>
camVars == <<spc, fbHeld, res, failedAt, afterFail>>
vars == <<ctlVars, wsVars, camVars>>

----------------------------------------------------------------------------
(* Bounds of the model *)

\* how far beyond [0,180] and [-255,255] the command values range
Over == 2
\* longest delivered WS payload length considered (in abstract units)
MaxLen == 2
\* number of clients of the stream endpoint
NumClients == 3

----------------------------------------------------------------------------
(* Program constants *)

SPEED_MAX == 255
SERVO_INIT == 90
SERVO_MIN == 0
SERVO_MAX == 180
FAIL_FLASHES == 10
OK_FLASHES == 3
FB_COUNT == 2
\* servoPos while nothing has been written to the servo
NoAngle == -1

Abs(x) == IF x < 0 THEN -x ELSE x

----------------------------------------------------------------------------
(* LED: led.cpp *)

ledSetup == ledPinMode' = "OUTPUT"

ledOn == ledLevel' = "HIGH"

ledOff == ledLevel' = "LOW"

----------------------------------------------------------------------------
(* Motor driver: engine.cpp *)

\* Motor::setSpeed without the two clamping lines
MotorSetSpeed_NoClamp(speed) ==
  /\ in1' = IF speed > 0 THEN "HIGH" ELSE "LOW"
  /\ in2' = IF speed < 0 THEN "HIGH" ELSE "LOW"
  /\ duty' = Abs(speed)

\* Motor::setSpeed
MotorSetSpeed(speed) ==
  LET s1 == IF speed < -SPEED_MAX THEN -SPEED_MAX ELSE speed
      s  == IF s1 > SPEED_MAX THEN SPEED_MAX ELSE s1
  IN  /\ IF s > 0
           THEN in1' = "HIGH" /\ in2' = "LOW"
           ELSE IF s < 0
                  THEN in1' = "LOW" /\ in2' = "HIGH"
                  ELSE in1' = "LOW" /\ in2' = "LOW"
      /\ duty' = Abs(s)

\* Motor::stop
MotorStop == MotorSetSpeed(0)

\* engineSetSpeed: forwards to the motor (its log line is part of wsLog)
engineSetSpeed(speed) == MotorSetSpeed(speed)

----------------------------------------------------------------------------
(* Servo controller *)

\* servoSetAngle: called by the dispatcher, defined outside the given sources
servoSetAngle(angle) ==
  servoPos' = IF angle < SERVO_MIN THEN SERVO_MIN
              ELSE IF angle > SERVO_MAX THEN SERVO_MAX ELSE angle

----------------------------------------------------------------------------
(* WebSocket messages: the inputs of handleWebSocketMessage *)

Opcodes == {"WS_TEXT", "WS_BINARY", "WS_CONTINUATION"}

\* AwsFrameInfo and the delivered length: a chunk of len bytes at offset
\* index of a frame of info.len bytes
Frames ==
  {f \in [final : BOOLEAN, index : 0..MaxLen, flen : 1..MaxLen,
          len : 1..MaxLen, opcode : Opcodes] : f.index + f.len <= f.flen}

\* a JSON member read through doc[...]: an integer, a non-numeric value
\* ("str"), or no member at all ("absent")
IntField(v) == [k |-> "int", v |-> v]
StrField == [k |-> "str", v |-> 0]
AbsentField == [k |-> "absent", v |-> 0]

AngleVals == ((SERVO_MIN - Over)..(SERVO_MIN - 1))
             \cup {SERVO_MIN, SERVO_INIT, SERVO_MAX}
             \cup ((SERVO_MAX + 1)..(SERVO_MAX + Over))

SpeedVals == ((-SPEED_MAX - Over)..(-SPEED_MAX - 1))
             \cup {-SPEED_MAX, -1, 0, 1, SPEED_MAX}
             \cup ((SPEED_MAX + 1)..(SPEED_MAX + Over))

\* "type" member: a recognised tag, another string, absent, or a non-string
TypeAbsent == "<absent>"
TypeNonString == "<number>"
StateAbsent == "<absent>"

Doc(t, a, s, st) == [ok |-> TRUE, type |-> t, angle |-> a, speed |-> s,
                     state |-> st]

\* a payload deserializeJson rejects
InvalidJson == [ok |-> FALSE, type |-> TypeAbsent, angle |-> AbsentField,
                speed |-> AbsentField, state |-> StateAbsent]

Payloads ==
  {InvalidJson}
  \cup {Doc("servo", a, AbsentField, StateAbsent) :
          a \in {IntField(v) : v \in AngleVals} \cup {StrField, AbsentField}}
  \cup {Doc("engine", AbsentField, s, StateAbsent) :
          s \in {IntField(v) : v \in SpeedVals} \cup {StrField, AbsentField}}
  \cup {Doc("led", AbsentField, AbsentField, st) :
          st \in {"on", "off", "blink", StateAbsent}}
  \cup {Doc(t, IntField(SERVO_MAX), IntField(SPEED_MAX), "on") :
          t \in {"horn", TypeAbsent, TypeNonString}}

\* payloads carried by the events that are not a complete text message
FragmentPayloads ==
  {InvalidJson,
   Doc("servo", IntField(SERVO_MAX), AbsentField, StateAbsent),
   Doc("engine", AbsentField, IntField(SPEED_MAX), StateAbsent),
   Doc("led", AbsentField, AbsentField, "on")}

CompleteFrames ==
  {f \in Frames : f.final /\ f.index = 0 /\ f.flen = f.len
                  /\ f.opcode = "WS_TEXT"}

Messages ==
  [info : CompleteFrames, payload : Payloads]
  \cup [info : Frames \ CompleteFrames, payload : FragmentPayloads]

\* lastMsg while no WS data event has been handled since boot
NoMsg == [info |-> [final |-> FALSE, index |-> 0, flen |-> 1, len |-> 1,
                    opcode |-> "NONE"],
          payload |-> InvalidJson]

----------------------------------------------------------------------------
(* WebSocket command dispatcher: web_server.cpp *)

\* the frame test with the opcode comparison left out
IsCompleteText_NoOpcode(info) ==
  info.final /\ info.index = 0 /\ info.flen = info.len

\* info->final && info->index == 0 && info->len == len && info->opcode == WS_TEXT
IsCompleteText(info) ==
  info.final /\ info.index = 0 /\ info.flen = info.len
  /\ info.opcode = "WS_TEXT"

\* deserializeJson(doc, data): TRUE when it returns an error
deserializeJson(payload) == ~payload.ok

\* const char* x = doc[...]: NULL unless the member is a string
IsNullStr(s) == s \in {TypeAbsent, TypeNonString, StateAbsent}

\* int x = doc[...]: the member's value, 0 when it is absent or not a number
JsonAsInt(f) == IF f.k = "int" THEN f.v ELSE 0

LogLine(text, arg) == [line |-> text, arg |-> arg]

actuators == <<servoPos, in1, in2, duty, ledLevel>>

\* the servo branch reading doc["speed"] in place of doc["angle"]
HandleServo_WrongField(doc) ==
  LET angle == JsonAsInt(doc.speed)
  IN  /\ servoSetAngle(angle)
      /\ wsLog' = <<LogLine("WS: servo", angle)>>
      /\ UNCHANGED <<in1, in2, duty, ledLevel>>

\* the servo branch
HandleServo(doc) ==
  LET angle == JsonAsInt(doc.angle)
  IN  /\ servoSetAngle(angle)
      /\ wsLog' = <<LogLine("WS: servo", angle)>>
      /\ UNCHANGED <<in1, in2, duty, ledLevel>>

\* the engine branch
HandleEngine(doc) ==
  LET speed == JsonAsInt(doc.speed)
  IN  /\ engineSetSpeed(speed)
      /\ wsLog' = <<LogLine("Moteur vitesse", speed),
                    LogLine("WS: engine", speed)>>
      /\ UNCHANGED <<servoPos, ledLevel>>

\* the led branch with the two calls exchanged
HandleLed_Swapped(doc) ==
  LET state == doc.state
  IN  /\ UNCHANGED <<servoPos, in1, in2, duty>>
      /\ IF ~IsNullStr(state) /\ state = "on"
           THEN ledOff /\ wsLog' = <<LogLine("WS: led on", 0)>>
           ELSE IF ~IsNullStr(state) /\ state = "off"
                  THEN ledOn /\ wsLog' = <<LogLine("WS: led off", 0)>>
                  ELSE UNCHANGED ledLevel /\ wsLog' = <<>>

\* the led branch
HandleLed(doc) ==
  LET state == doc.state
  IN  /\ UNCHANGED <<servoPos, in1, in2, duty>>
      /\ IF ~IsNullStr(state) /\ state = "on"
           THEN ledOn /\ wsLog' = <<LogLine("WS: led on", 0)>>
           ELSE IF ~IsNullStr(state) /\ state = "off"
                  THEN ledOff /\ wsLog' = <<LogLine("WS: led off", 0)>>
                  ELSE UNCHANGED ledLevel /\ wsLog' = <<>>

\* the chain on type ending in an else that stops the motor
Dispatch_ElseStop(doc) ==
  IF IsNullStr(doc.type)
    THEN UNCHANGED actuators /\ wsLog' = <<>>
    ELSE IF doc.type = "servo" THEN HandleServo(doc)
    ELSE IF doc.type = "engine" THEN HandleEngine(doc)
    ELSE IF doc.type = "led" THEN HandleLed(doc)
    ELSE /\ MotorStop
         /\ wsLog' = <<>>
         /\ UNCHANGED <<servoPos, ledLevel>>

\* if (!type) return; then the strcmp chain on type
Dispatch(doc) ==
  IF IsNullStr(doc.type)
    THEN UNCHANGED actuators /\ wsLog' = <<>>
    ELSE IF doc.type = "servo" THEN HandleServo(doc)
    ELSE IF doc.type = "engine" THEN HandleEngine(doc)
    ELSE IF doc.type = "led" THEN HandleLed(doc)
    ELSE UNCHANGED actuators /\ wsLog' = <<>>

\* handleWebSocketMessage
handleWebSocketMessage(msg) ==
  IF IsCompleteText(msg.info)
    THEN /\ wsParsed' = TRUE
         /\ IF deserializeJson(msg.payload)
              THEN /\ wsLog' = <<LogLine("WebSocket: JSON invalide", 0)>>
                   /\ UNCHANGED actuators
              ELSE Dispatch(msg.payload)
    ELSE /\ wsParsed' = FALSE
         /\ wsLog' = <<>>
         /\ UNCHANGED actuators

\* the valid led command a message carries, "none" if it carries none
LedCmd(msg) ==
  IF /\ msg.info.final /\ msg.info.index = 0 /\ msg.info.flen = msg.info.len
     /\ msg.info.opcode = "WS_TEXT"
     /\ msg.payload.ok /\ msg.payload.type = "led"
     /\ msg.payload.state \in {"on", "off"}
    THEN msg.payload.state
    ELSE "none"

\* onWebSocketEvent, case WS_EVT_DATA
WsData ==
  /\ webStarted
  /\ \E msg \in Messages :
       /\ handleWebSocketMessage(msg)
       /\ lastMsg' = msg
       /\ ledHist' = IF LedCmd(msg) = "none" THEN ledHist ELSE LedCmd(msg)
       /\ ledPrev' = IF LedCmd(msg) = "none" THEN ledPrev ELSE ledHist
  /\ UNCHANGED <<bootPc, flashI, flashN, flashRet, ledPinMode, serialStarted,
                 wifiStatus, otaStarted, telnetStarted, servoAttached,
                 motorSetup, webStarted, wsSent>>
  /\ UNCHANGED camVars

----------------------------------------------------------------------------
(* Boot: setup() of main.cpp, wifiSetup() of wifi_manager.cpp, flash() *)

Clients == 1..NumClients

InitCtl ==
  /\ bootPc = "ledSetup"
  /\ flashI = 0 /\ flashN = 0 /\ flashRet = "none"
  /\ ledPinMode = "INPUT" /\ ledLevel = "LOW"
  /\ serialStarted = FALSE
  /\ wifiStatus = "idle"
  /\ otaStarted = FALSE /\ telnetStarted = FALSE
  /\ servoAttached = FALSE /\ servoPos = NoAngle
  /\ motorSetup = FALSE /\ in1 = "LOW" /\ in2 = "LOW" /\ duty = 0
  /\ webStarted = FALSE

InitWs ==
  /\ wsLog = <<>> /\ wsSent = <<>> /\ wsParsed = FALSE
  /\ lastMsg = NoMsg /\ ledHist = "none" /\ ledPrev = "none"

InitCam ==
  /\ spc = [c \in Clients |-> "idle"]
  /\ fbHeld = [c \in Clients |-> 0]
  /\ res = [c \in Clients |-> "ESP_OK"]
  /\ failedAt = [c \in Clients |-> "none"]
  /\ afterFail = [c \in Clients |-> 0]

Init == InitCtl /\ InitWs /\ InitCam

\* flash(number, delayMs) entered from the caller; ret is where it returns to
CallFlash(number, ret) ==
  /\ bootPc' = "flash"
  /\ flashI' = 0
  /\ flashN' = number
  /\ flashRet' = ret

\* main.cpp:14 ledSetup(LED_FLASH)
SetupLed ==
  /\ bootPc = "ledSetup"
  /\ ledSetup
  /\ bootPc' = "logSetup"
  /\ UNCHANGED <<flashI, flashN, flashRet, ledLevel, serialStarted,
                 wifiStatus, otaStarted, telnetStarted, servoAttached,
                 servoPos, motorSetup, in1, in2, duty, webStarted>>
  /\ UNCHANGED <<wsVars, camVars>>

\* main.cpp:15 logSetup()
SetupLog ==
  /\ bootPc = "logSetup"
  /\ serialStarted' = TRUE
  /\ bootPc' = "wifiSetup"
  /\ UNCHANGED <<flashI, flashN, flashRet, ledPinMode, ledLevel,
                 wifiStatus, otaStarted, telnetStarted, servoAttached,
                 servoPos, motorSetup, in1, in2, duty, webStarted>>
  /\ UNCHANGED <<wsVars, camVars>>

\* wifiSetup up to WiFi.begin
WifiBegin ==
  /\ bootPc = "wifiSetup"
  /\ ledOn
  /\ wifiStatus' = "connecting"
  /\ bootPc' = "wifiWait"
  /\ UNCHANGED <<flashI, flashN, flashRet, ledPinMode, serialStarted,
                 otaStarted, telnetStarted, servoAttached,
                 servoPos, motorSetup, in1, in2, duty, webStarted>>
  /\ UNCHANGED <<wsVars, camVars>>

\* the connect test going on to the connected path whatever the result
WifiWait_NoRestart ==
  /\ bootPc = "wifiWait"
  /\ \E r \in {"connected", "failed"} :
       /\ wifiStatus' = r
       /\ bootPc' = "wifiConnected"
       /\ UNCHANGED <<flashI, flashN, flashRet>>
  /\ UNCHANGED <<ledPinMode, ledLevel, serialStarted, otaStarted,
                 telnetStarted, servoAttached, servoPos, motorSetup,
                 in1, in2, duty, webStarted>>
  /\ UNCHANGED <<wsVars, camVars>>

\* while (WiFi.waitForConnectResult() != WL_CONNECTED) { ... flash(10, 300)
WifiWait ==
  /\ bootPc = "wifiWait"
  /\ \E r \in {"connected", "failed"} :
       /\ wifiStatus' = r
       /\ IF r = "connected"
            THEN /\ bootPc' = "wifiConnected"
                 /\ UNCHANGED <<flashI, flashN, flashRet>>
            ELSE CallFlash(FAIL_FLASHES, "restart")
  /\ UNCHANGED <<ledPinMode, ledLevel, serialStarted, otaStarted,
                 telnetStarted, servoAttached, servoPos, motorSetup,
                 in1, in2, duty, webStarted>>
  /\ UNCHANGED <<wsVars, camVars>>

\* flash: loop test passed, ledOn(), delay
FlashOn ==
  /\ bootPc = "flash"
  /\ flashI < flashN
  /\ ledOn
  /\ bootPc' = "flashLit"
  /\ UNCHANGED <<flashI, flashN, flashRet, ledPinMode, serialStarted,
                 wifiStatus, otaStarted, telnetStarted, servoAttached,
                 servoPos, motorSetup, in1, in2, duty, webStarted>>
  /\ UNCHANGED <<wsVars, camVars>>

\* flash: ledOff(), delay, i++
FlashOff ==
  /\ bootPc = "flashLit"
  /\ ledOff
  /\ flashI' = flashI + 1
  /\ bootPc' = "flash"
  /\ UNCHANGED <<flashN, flashRet, ledPinMode, serialStarted,
                 wifiStatus, otaStarted, telnetStarted, servoAttached,
                 servoPos, motorSetup, in1, in2, duty, webStarted>>
  /\ UNCHANGED <<wsVars, camVars>>

\* flash: loop test failed, return to the caller
FlashReturn ==
  /\ bootPc = "flash"
  /\ ~(flashI < flashN)
  /\ bootPc' = flashRet
  /\ UNCHANGED <<flashI, flashN, flashRet, ledPinMode, ledLevel,
                 serialStarted, wifiStatus, otaStarted, telnetStarted,
                 servoAttached, servoPos, motorSetup, in1, in2, duty,
                 webStarted>>
  /\ UNCHANGED <<wsVars, camVars>>

\* delay(5000); ESP.restart(): the device boots again
Restart ==
  /\ bootPc = "restart"
  /\ bootPc' = "ledSetup"
  /\ flashI' = 0 /\ flashN' = 0 /\ flashRet' = "none"
  /\ ledPinMode' = "INPUT" /\ ledLevel' = "LOW"
  /\ serialStarted' = FALSE
  /\ wifiStatus' = "idle"
  /\ otaStarted' = FALSE /\ telnetStarted' = FALSE
  /\ servoAttached' = FALSE /\ servoPos' = NoAngle
  /\ motorSetup' = FALSE /\ in1' = "LOW" /\ in2' = "LOW" /\ duty' = 0
  /\ webStarted' = FALSE
  /\ wsLog' = <<>> /\ wsSent' = <<>> /\ wsParsed' = FALSE
  /\ lastMsg' = NoMsg /\ ledHist' = "none" /\ ledPrev' = "none"
  /\ UNCHANGED camVars

\* wifiSetup after the loop: ledOff(); flash(3, 1000)
WifiConnected ==
  /\ bootPc = "wifiConnected"
  /\ ledOff
  /\ CallFlash(OK_FLASHES, "ota")
  /\ UNCHANGED <<ledPinMode, serialStarted, wifiStatus, otaStarted,
                 telnetStarted, servoAttached, servoPos, motorSetup,
                 in1, in2, duty, webStarted>>
  /\ UNCHANGED <<wsVars, camVars>>

\* ArduinoOTA.begin(); wifiSetup returns
OtaBegin ==
  /\ bootPc = "ota"
  /\ otaStarted' = TRUE
  /\ bootPc' = "logStartTelnet"
  /\ UNCHANGED <<flashI, flashN, flashRet, ledPinMode, ledLevel,
                 serialStarted, wifiStatus, telnetStarted, servoAttached,
                 servoPos, motorSetup, in1, in2, duty, webStarted>>
  /\ UNCHANGED <<wsVars, camVars>>

\* main.cpp:17 logStartTelnet()
LogStartTelnet ==
  /\ bootPc = "logStartTelnet"
  /\ telnetStarted' = TRUE
  /\ bootPc' = "servoSetup"
  /\ UNCHANGED <<flashI, flashN, flashRet, ledPinMode, ledLevel,
                 serialStarted, wifiStatus, otaStarted, servoAttached,
                 servoPos, motorSetup, in1, in2, duty, webStarted>>
  /\ UNCHANGED <<wsVars, camVars>>

\* main.cpp:18 servoSetup(SERVO_PIN)
ServoSetup ==
  /\ bootPc = "servoSetup"
  /\ servoAttached' = TRUE
  /\ servoPos' = SERVO_INIT
  /\ bootPc' = "engineSetup"
  /\ UNCHANGED <<flashI, flashN, flashRet, ledPinMode, ledLevel,
                 serialStarted, wifiStatus, otaStarted, telnetStarted,
                 motorSetup, in1, in2, duty, webStarted>>
  /\ UNCHANGED <<wsVars, camVars>>

\* main.cpp:19 engineSetup(motor): Motor::setup, which ends in stop()
EngineSetup ==
  /\ bootPc = "engineSetup"
  /\ motorSetup' = TRUE
  /\ MotorStop
  /\ bootPc' = "webServerSetup"
  /\ UNCHANGED <<flashI, flashN, flashRet, ledPinMode, ledLevel,
                 serialStarted, wifiStatus, otaStarted, telnetStarted,
                 servoAttached, servoPos, webStarted>>
  /\ UNCHANGED <<wsVars, camVars>>

\* main.cpp:20 webServerSetup(); setup returns and loop() runs
WebServerSetup ==
  /\ bootPc = "webServerSetup"
  /\ webStarted' = TRUE
  /\ bootPc' = "loop"
  /\ UNCHANGED <<flashI, flashN, flashRet, ledPinMode, ledLevel,
                 serialStarted, wifiStatus, otaStarted, telnetStarted,
                 servoAttached, servoPos, motorSetup, in1, in2, duty>>
  /\ UNCHANGED <<wsVars, camVars>>

Next ==
  \/ SetupLed
  \/ SetupLog
  \/ WifiBegin
  \/ WifiWait
  \/ FlashOn
  \/ FlashOff
  \/ FlashReturn
  \/ Restart
  \/ WifiConnected
  \/ OtaBegin
  \/ LogStartTelnet
  \/ ServoSetup
  \/ EngineSetup
  \/ WebServerSetup
  \/ WsData

Spec == Init /\ [][Next]_vars

----------------------------------------------------------------------------
(* MJPEG stream: streamHandler of camera.cpp, one run per connected client *)

RECURSIVE SumHeld(_, _)
SumHeld(h, n) == IF n = 0 THEN 0 ELSE h[n] + SumHeld(h, n - 1)

\* frame buffers out of the driver's pool
HeldTotal == SumHeld(fbHeld, NumClients)

\* httpd_resp_set_type fails only on a NULL or invalid request, and the
\* server hands the handler the request it is serving
SetTypeResults == {"ESP_OK"}

\* outcomes of httpd_resp_send_chunk
SendResults == {"ESP_OK", "ESP_FAIL"}

\* history: an acquisition or a chunk write is being made
CountOp(c) ==
  afterFail' = [afterFail EXCEPT ![c] =
                  IF failedAt[c] = "none" THEN @ ELSE @ + 1]

\* history: the call named by at ended with result r
NoteResult(c, at, r) ==
  failedAt' = [failedAt EXCEPT ![c] =
                 IF @ = "none" /\ r # "ESP_OK" THEN at ELSE @]

\* a GET /stream arrives: the server calls streamHandler (fb = NULL, res = OK)
StreamConnect(c) ==
  /\ spc[c] = "idle"
  /\ spc' = [spc EXCEPT ![c] = "set_type"]
  /\ res' = [res EXCEPT ![c] = "ESP_OK"]
  /\ failedAt' = [failedAt EXCEPT ![c] = "none"]
  /\ afterFail' = [afterFail EXCEPT ![c] = 0]
  /\ UNCHANGED <<fbHeld, ctlVars, wsVars>>

\* res = httpd_resp_set_type(...); if (res != ESP_OK) return res;
StreamSetType(c) ==
  /\ spc[c] = "set_type"
  /\ \E r \in SetTypeResults :
       /\ res' = [res EXCEPT ![c] = r]
       /\ NoteResult(c, "set_type", r)
       /\ spc' = [spc EXCEPT ![c] = IF r = "ESP_OK" THEN "fb_get" ELSE "done"]
  /\ UNCHANGED <<fbHeld, afterFail, ctlVars, wsVars>>

\* fb = esp_camera_fb_get(); if (!fb) { res = ESP_FAIL; break; } ... return res
StreamFbGet(c) ==
  /\ spc[c] = "fb_get"
  /\ CountOp(c)
  /\ \E got \in BOOLEAN :
       /\ got => HeldTotal < FB_COUNT
       /\ IF got
            THEN /\ fbHeld' = [fbHeld EXCEPT ![c] = @ + 1]
                 /\ spc' = [spc EXCEPT ![c] = "boundary"]
                 /\ UNCHANGED <<res, failedAt>>
            ELSE /\ res' = [res EXCEPT ![c] = "ESP_FAIL"]
                 /\ NoteResult(c, "fb_get", "ESP_FAIL")
                 /\ spc' = [spc EXCEPT ![c] = "done"]
                 /\ UNCHANGED fbHeld
  /\ UNCHANGED <<ctlVars, wsVars>>

\* res = httpd_resp_send_chunk(...) for the chunk named by at
SendChunk(c, at, next) ==
  /\ CountOp(c)
  /\ \E r \in SendResults :
       /\ res' = [res EXCEPT ![c] = r]
       /\ NoteResult(c, at, r)
  /\ spc' = [spc EXCEPT ![c] = next]

\* the chunk is not sent: res is already an error
SkipChunk(c, next) ==
  /\ spc' = [spc EXCEPT ![c] = next]
  /\ UNCHANGED <<res, failedAt, afterFail>>

\* res = httpd_resp_send_chunk(req, STREAM_BOUNDARY, ...)
StreamSendBoundary(c) ==
  /\ spc[c] = "boundary"
  /\ SendChunk(c, "boundary", "part")
  /\ UNCHANGED <<fbHeld, ctlVars, wsVars>>

\* if (res == ESP_OK) res = httpd_resp_send_chunk(req, partBuf, hlen)
StreamSendPart(c) ==
  /\ spc[c] = "part"
  /\ IF res[c] = "ESP_OK" THEN SendChunk(c, "part", "body")
                          ELSE SkipChunk(c, "body")
  /\ UNCHANGED <<fbHeld, ctlVars, wsVars>>

\* the body write leaving the loop at once when it fails
StreamSendBody_BreakEarly(c) ==
  /\ spc[c] = "body"
  /\ IF res[c] = "ESP_OK"
       THEN /\ CountOp(c)
            /\ \E r \in SendResults :
                 /\ res' = [res EXCEPT ![c] = r]
                 /\ NoteResult(c, "body", r)
                 /\ spc' = [spc EXCEPT ![c] =
                              IF r = "ESP_OK" THEN "fb_return" ELSE "done"]
       ELSE SkipChunk(c, "fb_return")
  /\ UNCHANGED <<fbHeld, ctlVars, wsVars>>

\* if (res == ESP_OK) res = httpd_resp_send_chunk(req, fb->buf, fb->len)
StreamSendBody(c) ==
  /\ spc[c] = "body"
  /\ IF res[c] = "ESP_OK" THEN SendChunk(c, "body", "fb_return")
                          ELSE SkipChunk(c, "fb_return")
  /\ UNCHANGED <<fbHeld, ctlVars, wsVars>>

\* the end of the loop body without the break
StreamFbReturn_NoBreak(c) ==
  /\ spc[c] = "fb_return"
  /\ fbHeld' = [fbHeld EXCEPT ![c] = @ - 1]
  /\ spc' = [spc EXCEPT ![c] = "fb_get"]
  /\ UNCHANGED <<res, failedAt, afterFail, ctlVars, wsVars>>

\* esp_camera_fb_return(fb); if (res != ESP_OK) break; ... return res
StreamFbReturn(c) ==
  /\ spc[c] = "fb_return"
  /\ fbHeld' = [fbHeld EXCEPT ![c] = @ - 1]
  /\ spc' = [spc EXCEPT ![c] = IF res[c] # "ESP_OK" THEN "done" ELSE "fb_get"]
  /\ UNCHANGED <<res, failedAt, afterFail, ctlVars, wsVars>>

\* the server has ended the response; the client may connect again
StreamClose(c) ==
  /\ spc[c] = "done"
  /\ spc' = [spc EXCEPT ![c] = "idle"]
  /\ UNCHANGED <<fbHeld, res, failedAt, afterFail, ctlVars, wsVars>>

\* one step of client c's run of streamHandler
StreamStep(c) ==
  \/ StreamSetType(c)
  \/ StreamFbGet(c)
  \/ StreamSendBoundary(c)
  \/ StreamSendPart(c)
  \/ StreamSendBody(c)
  \/ StreamFbReturn(c)

NextStream ==
  \E c \in Clients :
    \/ StreamConnect(c)
    \/ StreamStep(c)
    \/ StreamClose(c)

SpecStream == Init /\ [][NextStream]_vars

----------------------------------------------------------------------------
(* Properties *)

Recognised == {"servo", "engine", "led"}

\* v clamped to [lo, hi], stated by its three cases
IsClampOf(c, v, lo, hi) ==
  /\ c \in lo..hi
  /\ (v < lo => c = lo)
  /\ (v > hi => c = hi)
  /\ (v \in lo..hi => c = v)

\* m is a complete text message holding a JSON document
IsDoc(m) == m.info \in CompleteFrames /\ m.payload.ok

\* m is an engine command with an integer speed
IsEngineCmd(m) ==
  IsDoc(m) /\ m.payload.type = "engine" /\ m.payload.speed.k = "int"

\* m is a servo command with an integer angle
IsServoCmd(m) ==
  IsDoc(m) /\ m.payload.type = "servo" /\ m.payload.angle.k = "int"

\* m is a complete text message that is malformed JSON or whose type is
\* missing or not recognised
IsDropped(m) ==
  /\ m.info \in CompleteFrames
  /\ (~m.payload.ok \/ m.payload.type \notin Recognised)

\* m is a servo or engine command whose angle / speed is absent or not a number
HasInvalidField(m) ==
  /\ IsDoc(m)
  /\ \/ m.payload.type = "servo" /\ m.payload.angle.k # "int"
     \/ m.payload.type = "engine" /\ m.payload.speed.k # "int"

\* the direction pins and duty the motor shows for the signed speed c
MotorShows(c) ==
  /\ duty = Abs(c)
  /\ (c > 0 => in1 = "HIGH" /\ in2 = "LOW")
  /\ (c < 0 => in1 = "LOW" /\ in2 = "HIGH")
  /\ (c = 0 => in1 = "LOW" /\ in2 = "LOW")

(* C1: after every engine command the motor shows the commanded speed
   clamped to [-255,255]: duty is its absolute value, the direction pins
   follow its sign; after Motor::setup the motor is stopped; IN1 and IN2 are
   never both HIGH and the duty stays within 0..255. *)
C1_MotorClampAndPins ==
  /\ ~(in1 = "HIGH" /\ in2 = "HIGH")
  /\ duty \in 0..SPEED_MAX
  /\ (bootPc = "webServerSetup" => MotorShows(0))
  /\ (IsEngineCmd(lastMsg) =>
        \E c \in (-SPEED_MAX)..SPEED_MAX :
          /\ IsClampOf(c, lastMsg.payload.speed.v, -SPEED_MAX, SPEED_MAX)
          /\ MotorShows(c))

C1_Witness ==
  /\ IsEngineCmd(lastMsg)
  /\ lastMsg.payload.speed.v < -SPEED_MAX
  /\ duty = SPEED_MAX /\ in1 = "LOW" /\ in2 = "HIGH"

(* C2: a WS data event whose message is malformed JSON, or whose type is
   missing or not one of servo, engine, led, leaves the servo position, the
   motor pins and duty and the LED level as they were. *)
C2_DroppedChangesNothing ==
  [][(webStarted /\ IsDropped(lastMsg')) => UNCHANGED actuators]_vars

C2_Witness ==
  /\ IsDropped(lastMsg) /\ lastMsg.payload.type = "horn"
  /\ servoPos = SERVO_MAX /\ duty = SPEED_MAX /\ ledLevel = "HIGH"

(* C4: once attached the servo position is always in [0,180], and after a
   servo command with an integer angle it is that angle clamped to
   [0,180]. *)
C4_ServoClamped ==
  /\ (servoAttached => servoPos \in SERVO_MIN..SERVO_MAX)
  /\ (IsServoCmd(lastMsg) =>
        IsClampOf(servoPos, lastMsg.payload.angle.v, SERVO_MIN, SERVO_MAX))

C4_Witness ==
  /\ IsServoCmd(lastMsg)
  /\ lastMsg.payload.angle.v > SERVO_MAX
  /\ servoPos = SERVO_MAX

(* C5: every complete text message dropped because it is malformed JSON or
   because its type is not recognised has caused a log line, and nothing has
   been sent to the client. *)
C5_DroppedIsLogged ==
  IsDropped(lastMsg) => (Len(wsLog) >= 1 /\ wsSent = <<>>)

(* C6: a WS data event that is not a complete, final, single-frame text
   payload is not parsed, logs nothing and leaves the servo position, the
   motor pins and duty and the LED level as they were. *)
C6_IncompleteIgnored ==
  [][(webStarted /\ lastMsg'.info \notin CompleteFrames)
       => (UNCHANGED actuators /\ ~wsParsed' /\ wsLog' = <<>>)]_vars

C6_Witness ==
  /\ lastMsg.info.final /\ lastMsg.info.index = 0
  /\ lastMsg.info.flen = lastMsg.info.len
  /\ lastMsg.info.opcode = "WS_BINARY"
  /\ lastMsg.payload = Doc("led", AbsentField, AbsentField, "on")
  /\ ledLevel = "LOW" /\ servoPos = SERVO_MAX /\ ~wsParsed

(* C7: a servo or engine command whose angle / speed is absent or not a
   number leaves the servo position and the motor pins and duty as they
   were. *)
C7_InvalidFieldDropped ==
  [][(webStarted /\ HasInvalidField(lastMsg'))
       => UNCHANGED <<servoPos, in1, in2, duty>>]_vars

(* C8: while the web server runs, the LED level is the one set by the most
   recent led command whose state is "on" or "off" (LOW before any), whatever
   other messages came in between. *)
C8_LedFollowsLastCommand ==
  webStarted => ledLevel = (IF ledHist = "on" THEN "HIGH" ELSE "LOW")

C8_Witness ==
  /\ ledPrev = "on" /\ ledHist = "off" /\ ledLevel = "LOW"
  /\ LedCmd(lastMsg) = "none"

(* C9: unless the Wi-Fi connect attempt ended connected, nothing else is
   initialised (OTA, Telnet, servo, motor, web server) and no WS event is
   handled; a failed attempt only flashes the LED and restarts, the restart
   coming after the ten flashes; wifiSetup returns connected with the LED
   low. *)
C9_BootOrder ==
  /\ (wifiStatus # "connected" =>
        /\ ~otaStarted /\ ~telnetStarted /\ ~servoAttached
        /\ ~motorSetup /\ ~webStarted
        /\ lastMsg = NoMsg)
  /\ (wifiStatus = "failed" =>
        /\ bootPc \in {"flash", "flashLit", "restart"}
        /\ flashN = FAIL_FLASHES /\ flashRet = "restart")
  /\ (bootPc = "restart" =>
        wifiStatus = "failed" /\ flashI = FAIL_FLASHES /\ ledLevel = "LOW")
  /\ (bootPc = "logStartTelnet" =>
        wifiStatus = "connected" /\ ledLevel = "LOW" /\ flashI = OK_FLASHES)
  /\ (lastMsg # NoMsg => webStarted)

C9_Witness ==
  bootPc = "restart" /\ wifiStatus = "failed" /\ flashI = FAIL_FLASHES

Active(c) == spc[c] \notin {"idle", "done"}

(* C3: after the first failed frame acquisition or chunk write of a run, no
   chunk is written and no frame is acquired in that run, and the handler
   returns a result other than ESP_OK; a run that has had no failure has not
   returned and can take its next step. *)
C3_StopsAtFirstFailure ==
  \A c \in Clients :
    /\ afterFail[c] = 0
    /\ (failedAt[c] # "none" /\ spc[c] # "idle" => res[c] # "ESP_OK")
    /\ (spc[c] = "done" => failedAt[c] # "none" /\ res[c] # "ESP_OK")
    /\ (Active(c) => ENABLED StreamStep(c))

C3_Witness ==
  \E c \in Clients : spc[c] = "done" /\ failedAt[c] = "part"

(* C10: a run of the handler holds at most one frame buffer, holds one
   exactly between the acquisition and the release of a frame, holds none
   when it acquires the next frame and none when it has returned, also after
   a failed chunk write; the buffers held never exceed the running
   handlers. *)
C10_FrameBufferReleased ==
  /\ \A c \in Clients :
       /\ fbHeld[c] \in {0, 1}
       /\ (spc[c] \in {"boundary", "part", "body", "fb_return"}
             <=> fbHeld[c] = 1)
  /\ HeldTotal <= Cardinality({c \in Clients : Active(c)})

C10_Witness ==
  \E c, d \in Clients :
    /\ c # d
    /\ spc[c] = "done" /\ failedAt[c] = "boundary" /\ fbHeld[c] = 0
    /\ fbHeld[d] = 1

=============================================================================
